---- MODULE Spec2Model ----
(***************************************************************************)
(* The crawler of crawlengine (package crawler): the frontier and worker   *)
(* pool of crawler.go, the robots cache of robots.go and the helpers of    *)
(* utils.go, as a state machine.  Start and each worker goroutine are      *)
(* processes; one action is one step between two accesses to shared state  *)
(* (the task channel, the visited map, the robots cache, the wait group,   *)
(* the context, the network, the sink).                                    *)
(***************************************************************************)
EXTENDS Integers, Sequences, FiniteSets, TLC

VARIABLES
    Config,        \* config.CrawlerConfig of this run (fixed at construction)
    startPc,       \* where Crawler.Start is
    startI,        \* Start's loop index (workers spawned, then seeds done)
    wg,            \* Crawler.wg: the wait group's counter
    taskQueue,     \* Crawler.taskQueue: the buffered channel's content
    closed,        \* whether close(c.taskQueue) has run
    visited,       \* Crawler.visited: the keys of the map
    robotsCache,   \* robots.go robotsCache: host -> cached data ("none" if absent)
    cancelled,     \* ctx.Done() is closed
    crashed,       \* the process has panicked
    pc,            \* where each worker goroutine is
    task,          \* the CrawlTask a worker is processing
    idx,           \* extractAndQueueLinks: index of the link being handled
    ua,            \* crawlPage's currentUA
    rdata,         \* the robots data GetRobotsData handed to this call
    outcome,       \* how the worker's last crawlPage call ended
    afterFail,     \* history: the robots query began after a failed fetch for the host
    response,      \* the HTTP response to the GET of the worker's crawlPage call
    storeCalls,    \* the sink: number of StoreDocument calls per URL
    sink,          \* the sink: the documents StoreDocument was called with
    enqueues,      \* history: number of sends on the task channel per URL
    dropped,       \* history: links dropped because the task channel was full
    robotsFailed   \* history: hosts for which a robots.txt fetch has failed

vars == <<Config, startPc, startI, wg, taskQueue, closed, visited, robotsCache,
          cancelled, crashed, pc, task, idx, ua, rdata, outcome, afterFail,
          response, storeCalls, sink, enqueues, dropped, robotsFailed>>

----------------------------------------------------------------------------
(* Bounds of the model *)

\* largest max_depth a configuration of the model has (the smallest is -1)
MaxDepthCfg == 1
\* length of the long seed list, more than the queue holds for one worker
LongSeeds == 11

(* Program constant: the channel's capacity is MaxConcurrency*10 *)
QueueFactor == 10

----------------------------------------------------------------------------
(* The web the crawler runs against *)

Root == "http://a/"
PageB == "http://a/b"
PageX == "http://a/x/1"
PageC == "http://a/c"
PageAd == "http://a/ads.html"
OffSite == "http://sub.a/"
BRoot == "http://b.com/"
BPage == "http://b.com/p"
Fragment == "#top"
Script == "javascript:void(0)"

URLs == {Root, PageB, PageX, PageC, PageAd, OffSite, BRoot, BPage}

Hosts == {"a", "sub.a", "b.com"}

\* url.Parse(u).Hostname(), and .Host: the model's URLs carry no port
Hostname(u) ==
    CASE u = OffSite -> "sub.a"
      [] u \in {BRoot, BPage} -> "b.com"
      [] OTHER -> "a"

\* the characters of a hostname, label by label
HostChars(h) ==
    CASE h = "sub.a" -> <<"sub", ".", "a">>
      [] h = "b.com" -> <<"b", ".", "com">>
      [] OTHER -> <<"a">>

\* url.Parse(u).Path, as its characters
Path(u) ==
    CASE u = Root -> <<"/">>
      [] u = PageB -> <<"/", "b">>
      [] u = PageX -> <<"/", "x", "/", "1">>
      [] u = PageC -> <<"/", "c">>
      [] u = PageAd -> <<"/", "ads.html">>
      [] u = OffSite -> <<"/">>
      [] u = BRoot -> <<"/">>
      [] u = BPage -> <<"/", "p">>

\* whether url.Parse accepts the string
ParseOK(u) == u \in URLs

\* strings.HasPrefix and strings.HasSuffix on character sequences
HasPrefix(s, p) == Len(p) <= Len(s) /\ SubSeq(s, 1, Len(p)) = p

HasSuffix(s, p) == Len(p) <= Len(s) /\ SubSeq(s, Len(s) - Len(p) + 1, Len(s)) = p

\* the href attributes of the a[href] elements of each page, in document
\* order; an href that is a URL is written as NormalizeURL resolves it
Hrefs(u) ==
    CASE u = Root -> <<Fragment, PageB, PageX, OffSite, PageAd>>
      [] u = PageB -> <<Root, PageC, Script>>
      [] u = PageX -> <<PageC>>
      [] u = PageC -> <<>>
      [] u = PageAd -> <<>>
      [] u = OffSite -> <<>>
      [] u = BRoot -> <<BPage>>
      [] u = BPage -> <<>>

\* config content_tags: a CSS selector, or none
Selector == "div.content"

\* the page of each URL as ExtractMainContent sees it: the text of the
\* elements each selector matches, and the text of the elements the walk
\* over article, main, section, p, h1, h2, h3 visits (nested script,
\* style, nav, footer, aside removed); a text is its sequence of tokens
Doc(u) ==
    CASE u = Root ->
           [matches |-> <<<<"home">>>>,
            blocks |-> <<<<" ", "welcome", "\n">>, <<"menu">>>>]
      [] u \in {PageB, PageX} ->
           [matches |-> <<>>, blocks |-> <<<<"about">>, <<"menu">>>>]
      [] OTHER ->
           [matches |-> <<>>, blocks |-> <<<<"menu">>>>]

\* the length in bytes of a token: "welcome" and "about" stand for runs of
\* 60 and 55 characters without whitespace
TokenLen(t) ==
    CASE t = "welcome" -> 60
      [] t = "about" -> 55
      [] t \in {"home", "menu"} -> 4
      [] OTHER -> 1

\* config user_agents, ad_link_patterns, excluded_domains
UserAgents == {"bot1", "bot2"}

AdLinkPatterns == {"ads\\."}

ExcludedDomains == {<<"b", ".", "com">>}

\* regexp MatchString of an ad pattern on a URL string
MatchString(pattern, u) == pattern = "ads\\." /\ u = PageAd

\* robots.txt of each host: agent group -> disallowed path prefixes.
\* Host a:  User-agent: *  Disallow: /x     User-agent: bot2  Disallow: /c
RobotsTxt(h) ==
    IF h = "a"
    THEN [g \in {"*", "bot2"} |->
            IF g = "*" THEN {<<"/", "x">>} ELSE {<<"/", "c">>}]
    ELSE [g \in {"*"} |-> {}]

----------------------------------------------------------------------------
(* Configurations *)

\* max_concurrency of the configurations: one worker, or two that race
WorkerCounts == {1, 2}

\* the last one is a seed on an excluded domain, as in config.ex.yaml
ShortSeedLists == {<<>>, <<Root>>, <<Root, Root>>, <<Root, PageB>>, <<BRoot>>}

\* (two pages that both link to http://a/c: b once, then x/1)
LongSeedList == [i \in 1..LongSeeds |-> IF i = 1 THEN PageB ELSE PageX]

\* content_tags is the selector, but for one configuration without
\* content_tags
Configs ==
    {[MaxConcurrency |-> c, MaxDepth |-> d, SeedURLs |-> s,
      ContentTags |-> <<Selector>>] :
        c \in WorkerCounts, d \in (-1)..MaxDepthCfg, s \in ShortSeedLists}
    \cup {[MaxConcurrency |-> 1, MaxDepth |-> 1, SeedURLs |-> LongSeedList,
           ContentTags |-> <<Selector>>]}
    \cup {[MaxConcurrency |-> 1, MaxDepth |-> 1, SeedURLs |-> <<Root>>,
           ContentTags |-> <<>>]}

\* the ids of the worker goroutines of any configuration
WorkerIds == UNION {1..c : c \in WorkerCounts}

Workers == 1..Config.MaxConcurrency

\* mutant: the channel is made with another factor
CapacityWrongFactor == Config.MaxConcurrency * (QueueFactor * QueueFactor)

\* cap(c.taskQueue)
Capacity == Config.MaxConcurrency * QueueFactor

NoTask == [URL |-> "", Depth |-> 0]

----------------------------------------------------------------------------
(* Pure helpers *)

\* robotstxt: RobotsData.TestAgent(path, agent) on the data GetRobotsData
\* returned; "allowall" is FromStatusAndBytes(200, "User-agent: *\nAllow: /")
TestAgent(data, h, path, agent) ==
    IF data = "allowall"
    THEN TRUE
    ELSE LET groups == RobotsTxt(h)
             g == IF agent \in DOMAIN groups THEN agent ELSE "*"
         IN  \A p \in groups[g] : ~HasPrefix(path, p)

\* mutant: the excluded-domain check is left out
IsExcludedDomainNever(u) == FALSE

IsExcludedDomain(u) ==
    \E d \in ExcludedDomains : HasSuffix(HostChars(Hostname(u)), d)

\* mutant: the ad-pattern check is left out
IsAdNever(u) == FALSE

IsAd(u) == \E pattern \in AdLinkPatterns : MatchString(pattern, u)

\* mutant: links to subdomains of the page's host pass the hostname check
LinkPassesSubdomains(base, href) ==
    /\ href # Fragment
    /\ href # Script
    /\ ParseOK(href)
    /\ HasSuffix(HostChars(Hostname(href)), HostChars(Hostname(base)))
    /\ ~IsExcludedDomain(href)
    /\ ~IsAd(href)

\* mutant: the hostname check is left out
LinkPassesAnyHost(base, href) ==
    /\ href # Fragment
    /\ href # Script
    /\ ParseOK(href)
    /\ ~IsExcludedDomain(href)
    /\ ~IsAd(href)

\* the checks of extractAndQueueLinks before hasVisited, for one href
LinkPasses(base, href) ==
    /\ href # Fragment
    /\ href # Script
    /\ ParseOK(href)
    /\ Hostname(href) = Hostname(base)
    /\ ~IsExcludedDomain(href)
    /\ ~IsAd(href)

\* the first link at index >= i of the page that reaches hasVisited
\* (Len + 1 when the Each loop ends)
RECURSIVE NextLink(_, _)
NextLink(base, i) ==
    IF i > Len(Hrefs(base)) THEN i
    ELSE IF LinkPasses(base, Hrefs(base)[i]) THEN i
    ELSE NextLink(base, i + 1)

\* the whitespace characters of \s and of strings.TrimSpace
WhiteSpace == {" ", "\n"}

\* the length of the run of characters of cs that s begins with
RECURSIVE RunLen(_, _)
RunLen(s, cs) ==
    IF s = <<>> \/ Head(s) \notin cs THEN 0 ELSE 1 + RunLen(Tail(s), cs)

\* regexp ReplaceAllString for a pattern [cs]{min,}
RECURSIVE ReplaceRuns(_, _, _, _)
ReplaceRuns(s, cs, min, repl) ==
    IF s = <<>> THEN <<>>
    ELSE LET n == RunLen(s, cs) IN
         IF n >= min
         THEN repl \o ReplaceRuns(SubSeq(s, n + 1, Len(s)), cs, min, repl)
         ELSE <<Head(s)>> \o ReplaceRuns(Tail(s), cs, min, repl)

RECURSIVE TrimRight(_)
TrimRight(s) ==
    IF s # <<>> /\ s[Len(s)] \in WhiteSpace
    THEN TrimRight(SubSeq(s, 1, Len(s) - 1))
    ELSE s

\* strings.TrimSpace
TrimSpace(s) ==
    TrimRight(SubSeq(s, RunLen(s, WhiteSpace) + 1, Len(s)))

\* len(text)
RECURSIVE TextLen(_)
TextLen(s) == IF s = <<>> THEN 0 ELSE TokenLen(Head(s)) + TextLen(Tail(s))

\* contentBuilder after WriteString(text); WriteString(sep) for each text
RECURSIVE WriteEach(_, _)
WriteEach(texts, sep) ==
    IF texts = <<>> THEN <<>>
    ELSE Head(texts) \o sep \o WriteEach(Tail(texts), sep)

\* the first loop of ExtractMainContent: for each selector, the text of
\* each element it matches and a newline
RECURSIVE WriteTagged(_, _)
WriteTagged(doc, contentTags) ==
    IF contentTags = <<>> THEN <<>>
    ELSE (IF Head(contentTags) = Selector
          THEN WriteEach(doc.matches, <<"\n">>)
          ELSE <<>>)
         \o WriteTagged(doc, Tail(contentTags))

\* the trimmed text of a block, if longer than 50 bytes
Substantial(text) == TextLen(TrimSpace(text)) > 50

\* the walk over the semantic tags: the substantial blocks, trimmed, each
\* followed by a blank line
RECURSIVE WriteBlocks(_)
WriteBlocks(blocks) ==
    IF blocks = <<>> THEN <<>>
    ELSE (IF Substantial(Head(blocks))
          THEN TrimSpace(Head(blocks)) \o <<"\n", "\n">>
          ELSE <<>>)
         \o WriteBlocks(Tail(blocks))

\* ExtractMainContent: the walk is made whenever the builder is empty
\* after the first loop
ExtractMainContent(doc, contentTags) ==
    LET tagged == IF Len(contentTags) > 0
                  THEN WriteTagged(doc, contentTags)
                  ELSE <<>>
        built == IF Len(tagged) = 0 THEN WriteBlocks(doc.blocks) ELSE tagged
        cleaned == ReplaceRuns(ReplaceRuns(built, WhiteSpace, 2, <<" ">>),
                               {"\n"}, 3, <<"\n", "\n">>)
    IN  TrimSpace(cleaned)

\* the values content_tags has in the configurations
ContentTagLists == {<<>>, <<Selector>>}

\* ExtractMainContent of every page under every content_tags, computed once
MainContents ==
    [u \in URLs |->
        [contentTags \in ContentTagLists |->
            ExtractMainContent(Doc(u), contentTags)]]

\* crawlPage's mainContent for the page of URL u (the pages do not change
\* during a run)
MainContent(u) == MainContents[u][Config.ContentTags]

\* the HTML source of the page of URL u
HTMLSource(u) == <<"html", u>>

\* GenerateContentHash: the SHA-256 digest of the content, in hex (distinct
\* contents of the model have distinct digests)
GenerateContentHash(content) == <<"sha256", content>>

\* the number of StoreDocument calls with URL u and HashID h
StoreCallsFor(u, h) ==
    IF h = GenerateContentHash(MainContent(u)) THEN storeCalls[u] ELSE 0

\* mutant: the hash is taken of the HTML source
ContentHashOfHTML(u) == GenerateContentHash(HTMLSource(u))

\* crawlPage's contentHash for the page of URL u
ContentHash(u) == GenerateContentHash(MainContent(u))

\* the storage.WebDocument crawlPage builds for the page of URL u
WebDocument(u) ==
    [HashID |-> ContentHash(u), URL |-> u, HTMLSource |-> HTMLSource(u),
     MainContent |-> MainContent(u)]

----------------------------------------------------------------------------
(* Initial state: NewCrawler, before Start *)

Init ==
    /\ Config \in Configs
    /\ startPc = "spawn"
    /\ startI = 0
    /\ wg = 0
    /\ taskQueue = <<>>
    /\ closed = FALSE
    /\ visited = {}
    /\ robotsCache = [h \in Hosts |-> "none"]
    /\ cancelled = FALSE
    /\ crashed = FALSE
    /\ pc = [w \in WorkerIds |-> "unborn"]
    /\ task = [w \in WorkerIds |-> NoTask]
    /\ idx = [w \in WorkerIds |-> 0]
    /\ ua = [w \in WorkerIds |-> ""]
    /\ rdata = [w \in WorkerIds |-> "none"]
    /\ outcome = [w \in WorkerIds |-> ""]
    /\ afterFail = [w \in WorkerIds |-> FALSE]
    /\ response = [w \in WorkerIds |-> ""]
    /\ storeCalls = [u \in URLs |-> 0]
    /\ sink = {}
    /\ enqueues = [u \in URLs |-> 0]
    /\ dropped = {}
    /\ robotsFailed = {}

----------------------------------------------------------------------------
(* Crawler.Start *)

startVars == <<startPc, startI>>

workerVars == <<pc, task, idx, ua, rdata, outcome, afterFail, response>>

worldVars == <<robotsCache, storeCalls, sink, enqueues, dropped, robotsFailed>>

\* for i := 0; i < MaxConcurrency; i++ { c.wg.Add(1); go c.worker(ctx, i) }
StartSpawn ==
    /\ ~crashed
    /\ startPc = "spawn"
    /\ startI < Config.MaxConcurrency
    /\ wg' = wg + 1
    /\ pc' = [pc EXCEPT ![startI + 1] = "select"]
    /\ IF startI + 1 < Config.MaxConcurrency
       THEN /\ startI' = startI + 1
            /\ startPc' = "spawn"
       ELSE /\ startI' = 1
            /\ startPc' = IF Len(Config.SeedURLs) = 0 THEN "wait" ELSE "seedSend"
    /\ UNCHANGED <<Config, taskQueue, closed, visited, cancelled, crashed,
                   task, idx, ua, rdata, outcome, afterFail, response,
                   worldVars>>

\* mutant: a seed that is already in the visited set is not sent
StartSeedSendUnlessVisited ==
    /\ ~crashed
    /\ startPc = "seedSend"
    /\ IF Config.SeedURLs[startI] \in visited
       THEN UNCHANGED <<taskQueue, enqueues>>
       ELSE /\ Len(taskQueue) < Capacity
            /\ taskQueue' =
                  Append(taskQueue, [URL |-> Config.SeedURLs[startI], Depth |-> 0])
            /\ enqueues' = [enqueues EXCEPT ![Config.SeedURLs[startI]] = @ + 1]
    /\ startPc' = "seedMark"
    /\ UNCHANGED <<Config, startI, wg, closed, visited, cancelled, crashed,
                   workerVars, robotsCache, storeCalls, sink, dropped,
                   robotsFailed>>

\* c.taskQueue <- CrawlTask{URL: seedURL, Depth: 0}: blocks while the
\* channel is full
StartSeedSend ==
    /\ ~crashed
    /\ startPc = "seedSend"
    /\ Len(taskQueue) < Capacity
    /\ taskQueue' = Append(taskQueue, [URL |-> Config.SeedURLs[startI], Depth |-> 0])
    /\ enqueues' = [enqueues EXCEPT ![Config.SeedURLs[startI]] = @ + 1]
    /\ startPc' = "seedMark"
    /\ UNCHANGED <<Config, startI, wg, closed, visited, cancelled, crashed,
                   workerVars, robotsCache, storeCalls, sink, dropped, robotsFailed>>

\* c.markVisited(seedURL), then the next seed or c.wg.Wait()
StartSeedMark ==
    /\ ~crashed
    /\ startPc = "seedMark"
    /\ visited' = visited \cup {Config.SeedURLs[startI]}
    /\ IF startI < Len(Config.SeedURLs)
       THEN /\ startI' = startI + 1
            /\ startPc' = "seedSend"
       ELSE /\ startI' = startI
            /\ startPc' = "wait"
    /\ UNCHANGED <<Config, wg, taskQueue, closed, cancelled, crashed,
                   workerVars, worldVars>>

\* mutant: Start does not wait for the workers
WgWaitReturnsAtOnce == TRUE

\* mutant: Start waits for an empty queue, not for the workers
WgWaitReturnsWhenQueueEmpty == Len(taskQueue) = 0

\* c.wg.Wait() returns when the counter is zero
WgWaitReturns == wg = 0

StartWait ==
    /\ ~crashed
    /\ startPc = "wait"
    /\ WgWaitReturns
    /\ startPc' = "close"
    /\ UNCHANGED <<Config, startI, wg, taskQueue, closed, visited, cancelled,
                   crashed, workerVars, worldVars>>

\* close(c.taskQueue) and return
StartClose ==
    /\ ~crashed
    /\ startPc = "close"
    /\ closed' = TRUE
    /\ startPc' = "done"
    /\ UNCHANGED <<Config, startI, wg, taskQueue, visited, cancelled, crashed,
                   workerVars, worldVars>>

----------------------------------------------------------------------------
(* Crawler.worker *)

\* mutant: the worker has no depth check
OverDepthNever(t) == FALSE

\* task.Depth > c.Config.MaxDepth
OverDepth(t) == t.Depth > Config.MaxDepth

\* defer c.wg.Done() as the worker returns
WorkerExit(w) ==
    /\ pc' = [pc EXCEPT ![w] = "exited"]
    /\ wg' = wg - 1

\* select case task, ok := <-c.taskQueue, for a task within depth; on a
\* closed and drained channel ok is false and the worker returns
WorkerRecv(w) ==
    /\ ~crashed
    /\ pc[w] = "select"
    /\ \/ /\ Len(taskQueue) > 0
          /\ ~OverDepth(Head(taskQueue))
       \/ /\ Len(taskQueue) = 0
          /\ closed
    /\ IF Len(taskQueue) = 0
       THEN /\ WorkerExit(w)
            /\ UNCHANGED <<taskQueue, task>>
       ELSE /\ taskQueue' = Tail(taskQueue)
            /\ task' = [task EXCEPT ![w] = Head(taskQueue)]
            /\ pc' = [pc EXCEPT ![w] = "crawl"]
            /\ wg' = wg
    /\ UNCHANGED <<Config, startVars, closed, visited, cancelled, crashed,
                   idx, ua, rdata, outcome, afterFail, response, worldVars>>

\* the same receive, for a task over max depth: logged and skipped
WorkerSkip(w) ==
    /\ ~crashed
    /\ pc[w] = "select"
    /\ Len(taskQueue) > 0
    /\ OverDepth(Head(taskQueue))
    /\ taskQueue' = Tail(taskQueue)
    /\ UNCHANGED <<Config, startVars, wg, closed, visited, cancelled, crashed,
                   workerVars, worldVars>>

\* select case <-ctx.Done(): the worker returns
WorkerCtxDone(w) ==
    /\ ~crashed
    /\ pc[w] = "select"
    /\ cancelled
    /\ WorkerExit(w)
    /\ UNCHANGED <<Config, startVars, taskQueue, closed, visited, cancelled,
                   crashed, task, idx, ua, rdata, outcome, afterFail, response,
                   worldVars>>

\* time.Sleep(DelayMs) after crawlPage has returned, then the next select
WorkerSleep(w) ==
    /\ ~crashed
    /\ pc[w] = "sleep"
    /\ pc' = [pc EXCEPT ![w] = "select"]
    /\ task' = [task EXCEPT ![w] = NoTask]
    /\ idx' = [idx EXCEPT ![w] = 0]
    /\ ua' = [ua EXCEPT ![w] = ""]
    /\ rdata' = [rdata EXCEPT ![w] = "none"]
    /\ outcome' = [outcome EXCEPT ![w] = ""]
    /\ afterFail' = [afterFail EXCEPT ![w] = FALSE]
    /\ response' = [response EXCEPT ![w] = ""]
    /\ UNCHANGED <<Config, startVars, wg, taskQueue, closed, visited, cancelled,
                   crashed, worldVars>>

----------------------------------------------------------------------------
(* Crawler.crawlPage, robots.go *)

\* mutant: the result of TestAgent is ignored
IsAllowedAlways(data, u, agent) == TRUE

\* IsAllowedByRobots on the data GetRobotsData returned (its error is
\* always nil)
IsAllowedByRobots(data, u, agent) ==
    TestAgent(data, Hostname(u), Path(u), agent)

\* crawlPage after IsAllowedByRobots has returned: the GET, or the return
AfterRobots(w, data, agent) ==
    IF IsAllowedByRobots(data, task[w].URL, agent)
    THEN /\ pc' = [pc EXCEPT ![w] = "get"]
         /\ outcome' = outcome
    ELSE /\ pc' = [pc EXCEPT ![w] = "sleep"]
         /\ outcome' = [outcome EXCEPT ![w] = "robotsDenied"]

\* mutant: crawlPage goes to the GET without asking robots
WorkerCrawlSkipsRobots(w) ==
    /\ ~crashed
    /\ pc[w] = "crawl"
    /\ IF ~ParseOK(task[w].URL)
       THEN /\ pc' = [pc EXCEPT ![w] = "sleep"]
            /\ outcome' = [outcome EXCEPT ![w] = "parseError"]
            /\ UNCHANGED <<ua, rdata, afterFail>>
       ELSE \E agent \in UserAgents :
            /\ ua' = [ua EXCEPT ![w] = agent]
            /\ pc' = [pc EXCEPT ![w] = "get"]
            /\ UNCHANGED <<rdata, afterFail, outcome>>
    /\ UNCHANGED <<Config, startVars, wg, taskQueue, closed, visited, cancelled,
                   crashed, task, idx, response, worldVars>>

\* crawlPage up to GetRobotsData's read of the cache: url.Parse,
\* GetRandomUserAgent, the read under RLock, and on a hit TestAgent
WorkerCrawl(w) ==
    /\ ~crashed
    /\ pc[w] = "crawl"
    /\ IF ~ParseOK(task[w].URL)
       THEN /\ pc' = [pc EXCEPT ![w] = "sleep"]
            /\ outcome' = [outcome EXCEPT ![w] = "parseError"]
            /\ UNCHANGED <<ua, rdata, afterFail>>
       ELSE \E agent \in UserAgents :
            LET h == Hostname(task[w].URL) IN
            /\ ua' = [ua EXCEPT ![w] = agent]
            /\ afterFail' = [afterFail EXCEPT ![w] = h \in robotsFailed]
            /\ IF robotsCache[h] # "none"
               THEN /\ rdata' = [rdata EXCEPT ![w] = robotsCache[h]]
                    /\ AfterRobots(w, robotsCache[h], agent)
               ELSE /\ rdata' = rdata
                    /\ pc' = [pc EXCEPT ![w] = "robotsFetch"]
                    /\ outcome' = outcome
    /\ UNCHANGED <<Config, startVars, wg, taskQueue, closed, visited, cancelled,
                   crashed, task, idx, response, worldVars>>

\* what GetRobotsData keeps in the cache for the host after a fetch that
\* failed: nothing, the allow-all data is only returned
CacheAfterFailure(h) == robotsCache

\* GetRobotsData on a miss: FetchPage of robots.txt, the body read and
\* parsed.  ok: status 200 and a body that parses.  Otherwise the
\* allow-all data is returned
WorkerRobotsFetch(w) ==
    /\ ~crashed
    /\ pc[w] = "robotsFetch"
    /\ \E ok \in BOOLEAN :
         LET h == Hostname(task[w].URL) IN
         IF ok
         THEN /\ rdata' = [rdata EXCEPT ![w] = "parsed"]
              /\ pc' = [pc EXCEPT ![w] = "robotsStore"]
              /\ UNCHANGED <<outcome, robotsFailed, robotsCache>>
         ELSE /\ rdata' = [rdata EXCEPT ![w] = "allowall"]
              /\ robotsFailed' = robotsFailed \cup {h}
              /\ robotsCache' = CacheAfterFailure(h)
              /\ AfterRobots(w, "allowall", ua[w])
    /\ UNCHANGED <<Config, startVars, wg, taskQueue, closed, visited, cancelled,
                   crashed, task, idx, ua, afterFail, response, storeCalls, sink,
                   enqueues, dropped>>

\* GetRobotsData: robotsCache[baseURL.Host] = robotsData under Lock, then
\* TestAgent
WorkerRobotsStore(w) ==
    /\ ~crashed
    /\ pc[w] = "robotsStore"
    /\ robotsCache' = [robotsCache EXCEPT ![Hostname(task[w].URL)] = rdata[w]]
    /\ AfterRobots(w, rdata[w], ua[w])
    /\ UNCHANGED <<Config, startVars, wg, taskQueue, closed, visited, cancelled,
                   crashed, task, idx, ua, rdata, afterFail, response,
                   storeCalls, sink, enqueues, dropped, robotsFailed>>

\* the HTTP responses to a page GET: status 200 with a body that parses;
\* another status (404, 500, 204, ...); no response, or a body that
\* cannot be read or parsed
Responses == {"200", "non200", "failed"}

\* DefaultHTTPClient.Get: what it returns for a response.  For a status
\* other than 200 it returns FetchPage's err, which is nil there: a nil
\* document with a nil error
HTTPGet(resp) ==
    CASE resp = "200" -> "doc"
      [] resp = "non200" -> "nilDocNilErr"
      [] resp = "failed" -> "error"

\* the results of c.httpClient.Get: a document; an error (FetchPage,
\* ReadAll or the HTML parser failed); or, for a status other than 200,
\* a nil document with FetchPage's nil error
GetResults == {HTTPGet(resp) : resp \in Responses}

\* c.httpClient.Get(task.URL, currentUA) and crawlPage's err != nil check
\* (currentUA and the robots data are dead from here on).
\* With a nil document and a nil error crawlPage goes on and
\* ExtractMainContent dereferences the nil document: the process panics
WorkerGet(w) ==
    /\ ~crashed
    /\ pc[w] = "get"
    /\ \E resp \in Responses :
         LET r == HTTPGet(resp) IN
         /\ response' = [response EXCEPT ![w] = resp]
         /\ CASE r = "doc" ->
                /\ pc' = [pc EXCEPT ![w] = "store"]
                /\ UNCHANGED <<outcome, crashed>>
              [] r = "error" ->
                /\ pc' = [pc EXCEPT ![w] = "sleep"]
                /\ outcome' = [outcome EXCEPT ![w] = "fetchError"]
                /\ UNCHANGED crashed
              [] r = "nilDocNilErr" ->
                /\ pc' = [pc EXCEPT ![w] = "panic"]
                /\ crashed' = TRUE
                /\ UNCHANGED outcome
    /\ ua' = [ua EXCEPT ![w] = ""]
    /\ rdata' = [rdata EXCEPT ![w] = "none"]
    /\ afterFail' = [afterFail EXCEPT ![w] = FALSE]
    /\ UNCHANGED <<Config, startVars, wg, taskQueue, closed, visited, cancelled,
                   task, idx, worldVars>>

\* mutant: links are extracted at max depth too
LinksWantedAtMaxDepth(t) == t.Depth <= Config.MaxDepth

\* task.Depth < c.Config.MaxDepth
LinksWanted(t) == t.Depth < Config.MaxDepth

\* crawlPage from ExtractMainContent to c.Storer.StoreDocument (its error
\* is only logged), then extractAndQueueLinks if the depth allows
WorkerStore(w) ==
    /\ ~crashed
    /\ pc[w] = "store"
    /\ storeCalls' = [storeCalls EXCEPT ![task[w].URL] = @ + 1]
    /\ sink' = sink \cup {WebDocument(task[w].URL)}
    /\ LET first == NextLink(task[w].URL, 1) IN
       IF LinksWanted(task[w]) /\ first <= Len(Hrefs(task[w].URL))
       THEN /\ pc' = [pc EXCEPT ![w] = "hasVisited"]
            /\ idx' = [idx EXCEPT ![w] = first]
            /\ outcome' = outcome
       ELSE /\ pc' = [pc EXCEPT ![w] = "sleep"]
            /\ idx' = idx
            /\ outcome' = [outcome EXCEPT ![w] = "stored"]
    /\ UNCHANGED <<Config, startVars, wg, taskQueue, closed, visited, cancelled,
                   crashed, task, ua, rdata, afterFail, response, robotsCache,
                   enqueues, dropped, robotsFailed>>

----------------------------------------------------------------------------
(* Crawler.extractAndQueueLinks *)

\* the link the Each callback is at
CurLink(w) == Hrefs(task[w].URL)[idx[w]]

\* the callback returns: on to the next link that passes the checks, or
\* back to crawlPage and the worker's sleep
NextCallback(w) ==
    LET n == NextLink(task[w].URL, idx[w] + 1) IN
    IF n <= Len(Hrefs(task[w].URL))
    THEN /\ pc' = [pc EXCEPT ![w] = "hasVisited"]
         /\ idx' = [idx EXCEPT ![w] = n]
         /\ outcome' = outcome
    ELSE /\ pc' = [pc EXCEPT ![w] = "sleep"]
         /\ idx' = idx
         /\ outcome' = [outcome EXCEPT ![w] = "stored"]

\* c.hasVisited(absURLString), under visitedLock
hasVisited(u) == u \in visited

WorkerHasVisited(w) ==
    /\ ~crashed
    /\ pc[w] = "hasVisited"
    /\ IF hasVisited(CurLink(w))
       THEN NextCallback(w)
       ELSE /\ pc' = [pc EXCEPT ![w] = "markVisited"]
            /\ UNCHANGED <<idx, outcome>>
    /\ UNCHANGED <<Config, startVars, wg, taskQueue, closed, visited, cancelled,
                   crashed, task, ua, rdata, afterFail, response, worldVars>>

\* c.markVisited(absURLString), under visitedLock
WorkerMarkVisited(w) ==
    /\ ~crashed
    /\ pc[w] = "markVisited"
    /\ visited' = visited \cup {CurLink(w)}
    /\ pc' = [pc EXCEPT ![w] = "send"]
    /\ UNCHANGED <<Config, startVars, wg, taskQueue, closed, cancelled, crashed,
                   task, idx, ua, rdata, outcome, afterFail, response,
                   worldVars>>

\* mutant: the depth is raised once by crawlPage and once more at the send
LinkDepthTwice(t) == t.Depth + 2

\* the depth of the task made for a link of the page of task t
LinkDepth(t) == t.Depth + 1

\* mutant: a plain send c.taskQueue <- CrawlTask{...}, which waits for room
WorkerSendBlocking(w) ==
    /\ ~crashed
    /\ pc[w] = "send"
    /\ ~closed
    /\ Len(taskQueue) < Capacity
    /\ taskQueue' =
          Append(taskQueue, [URL |-> CurLink(w), Depth |-> LinkDepth(task[w])])
    /\ enqueues' = [enqueues EXCEPT ![CurLink(w)] = @ + 1]
    /\ NextCallback(w)
    /\ UNCHANGED <<Config, startVars, wg, closed, visited, cancelled, crashed,
                   task, ua, rdata, afterFail, response, robotsCache,
                   storeCalls, sink, dropped, robotsFailed>>

\* mutant: the drop branch takes the URL out of the visited set again
WorkerSendUnmarksOnDrop(w) ==
    /\ ~crashed
    /\ pc[w] = "send"
    /\ IF closed
       THEN /\ pc' = [pc EXCEPT ![w] = "panic"]
            /\ crashed' = TRUE
            /\ UNCHANGED <<taskQueue, enqueues, dropped, visited, idx, outcome>>
       ELSE /\ IF Len(taskQueue) < Capacity
               THEN /\ taskQueue' =
                         Append(taskQueue,
                                [URL |-> CurLink(w), Depth |-> LinkDepth(task[w])])
                    /\ enqueues' = [enqueues EXCEPT ![CurLink(w)] = @ + 1]
                    /\ UNCHANGED <<dropped, visited>>
               ELSE /\ dropped' = dropped \cup {CurLink(w)}
                    /\ visited' = visited \ {CurLink(w)}
                    /\ UNCHANGED <<taskQueue, enqueues>>
            /\ NextCallback(w)
            /\ UNCHANGED crashed
    /\ UNCHANGED <<Config, startVars, wg, closed, cancelled,
                   task, ua, rdata, afterFail, response, robotsCache,
                   storeCalls, sink, robotsFailed>>

\* select { case c.taskQueue <- CrawlTask{...}: default: }: the send when
\* the channel has room, the drop when it is full; a send on a closed
\* channel panics
WorkerSend(w) ==
    /\ ~crashed
    /\ pc[w] = "send"
    /\ IF closed
       THEN /\ pc' = [pc EXCEPT ![w] = "panic"]
            /\ crashed' = TRUE
            /\ UNCHANGED <<taskQueue, enqueues, dropped, idx, outcome>>
       ELSE /\ IF Len(taskQueue) < Capacity
               THEN /\ taskQueue' =
                         Append(taskQueue,
                                [URL |-> CurLink(w), Depth |-> LinkDepth(task[w])])
                    /\ enqueues' = [enqueues EXCEPT ![CurLink(w)] = @ + 1]
                    /\ dropped' = dropped
               ELSE /\ dropped' = dropped \cup {CurLink(w)}
                    /\ UNCHANGED <<taskQueue, enqueues>>
            /\ NextCallback(w)
            /\ UNCHANGED crashed
    /\ UNCHANGED <<Config, startVars, wg, closed, visited, cancelled,
                   task, ua, rdata, afterFail, response, robotsCache,
                   storeCalls, sink, robotsFailed>>

----------------------------------------------------------------------------
(* The environment and the specification *)

\* main.go: crawlerCancel() on SIGINT or SIGTERM
Cancel ==
    /\ ~crashed
    /\ ~cancelled
    /\ cancelled' = TRUE
    /\ UNCHANGED <<Config, startVars, wg, taskQueue, closed, visited, crashed,
                   workerVars, worldVars>>

StartNext ==
    \/ StartSpawn
    \/ StartSeedSend
    \/ StartSeedMark
    \/ StartWait
    \/ StartClose

WorkerNext(w) ==
    \/ WorkerRecv(w)
    \/ WorkerSkip(w)
    \/ WorkerCtxDone(w)
    \/ WorkerCrawl(w)
    \/ WorkerRobotsFetch(w)
    \/ WorkerRobotsStore(w)
    \/ WorkerGet(w)
    \/ WorkerStore(w)
    \/ WorkerHasVisited(w)
    \/ WorkerMarkVisited(w)
    \/ WorkerSend(w)
    \/ WorkerSleep(w)

Next ==
    \/ StartNext
    \/ \E w \in WorkerIds : WorkerNext(w)
    \/ Cancel

Spec == Init /\ [][Next]_vars

\* the Go scheduler runs every goroutine that can take a step; nothing
\* obliges the environment to cancel
FairSpec ==
    /\ Spec
    /\ WF_vars(StartNext)
    /\ \A w \in WorkerIds : WF_vars(WorkerNext(w))

----------------------------------------------------------------------------
(* Properties *)

\* the task a step has put on the channel
Sent == taskQueue'[Len(taskQueue')]

\* a step that sends on the channel
IsSend == Len(taskQueue') > Len(taskQueue)

\* the pool is idle: every worker waits in its select and nothing is queued
QueueEmptyAllIdle ==
    /\ Len(taskQueue) = 0
    /\ \A w \in Workers : pc[w] = "select"

StartReturned == startPc = "done"

\* the seeds are queued, pages have been stored and the pool is idle
CrawlDrained ==
    /\ QueueEmptyAllIdle
    /\ startPc = "wait"
    /\ \E u \in URLs : storeCalls[u] > 0

\* C1: without cancellation, once the queue is empty and every worker is
\* idle, Start eventually returns (stated for a pool that has crawled, and
\* a run that ends in a panic aside).
C1_IdlePoolShutsDown ==
    CrawlDrained ~> (StartReturned \/ cancelled \/ crashed)

\* seed_urls names no URL twice
DistinctSeeds ==
    \A i, j \in 1..Len(Config.SeedURLs) :
        Config.SeedURLs[i] = Config.SeedURLs[j] => i = j

\* C2: every URL is put on the task queue at most once, seeds and links
\* together (stated for the runs whose seeds are distinct; a seed listed
\* twice is sent twice).
C2_EnqueuedAtMostOnce ==
    DistinctSeeds => \A u \in URLs : enqueues[u] <= 1

\* C3: after ctx is cancelled, Start eventually returns (a run that ends in
\* a panic aside).
C3_CancelEndsStart == cancelled ~> (StartReturned \/ crashed)

\* C4: a worker that issues a page GET holds a task of depth <= max_depth.
C4_NoFetchOverMaxDepth ==
    \A w \in WorkerIds :
        pc[w] \in {"crawl", "robotsFetch", "robotsStore", "get", "store"}
            => task[w].Depth <= Config.MaxDepth

\* C4 witness: a page at depth max_depth >= 1 has been fetched.
C4_Witness ==
    \E w \in WorkerIds :
        /\ pc[w] = "store"
        /\ Config.MaxDepth >= 1
        /\ task[w].Depth = Config.MaxDepth

\* C5: a worker step that marks a URL visited or sends a task is made for a
\* task of depth < max_depth, and the task sent has the parent's depth + 1;
\* a page at depth max_depth goes from the store call straight to the end
\* of crawlPage, with the store call made.
C5_LinksOnlyBelowMaxDepth ==
    [][\A w \in WorkerIds :
          /\ (pc'[w] # pc[w] /\ (visited' # visited \/ IsSend))
                => /\ task[w].Depth < Config.MaxDepth
                   /\ IsSend => Sent.Depth = task[w].Depth + 1
          /\ (pc[w] = "store" /\ pc'[w] # "store"
                /\ task[w].Depth = Config.MaxDepth)
                => /\ pc'[w] = "sleep"
                   /\ storeCalls'[task[w].URL] = storeCalls[task[w].URL] + 1
                   /\ visited' = visited
                   /\ taskQueue' = taskQueue]_vars

\* C5 witness: a page at depth max_depth that has links was stored and its
\* worker is back from crawlPage, its links neither marked nor queued.
C5_Witness ==
    \E w \in WorkerIds :
        /\ pc[w] = "sleep"
        /\ outcome[w] = "stored"
        /\ task[w].Depth = Config.MaxDepth
        /\ task[w].URL = Root
        /\ storeCalls[Root] = 1
        /\ PageB \notin visited
        /\ enqueues[PageB] = 0

\* C6: a worker is at the page GET only if the robots data its crawlPage
\* call obtained allows the path for the user agent in use; a crawlPage
\* call that robots denies has ended.
C6_NoFetchWhenRobotsDeny ==
    \A w \in WorkerIds :
        /\ pc[w] = "get"
              => TestAgent(rdata[w], Hostname(task[w].URL), Path(task[w].URL), ua[w])
        /\ (pc[w] = "get" /\ rdata[w] = "parsed")
              => LET groups == RobotsTxt(Hostname(task[w].URL))
                     g == IF ua[w] \in DOMAIN groups THEN ua[w] ELSE "*"
                 IN  \A p \in groups[g] : ~HasPrefix(Path(task[w].URL), p)
        /\ outcome[w] = "robotsDenied" => pc[w] = "sleep"

\* C6 witness: robots.txt denies /x, and the crawlPage call for /x/1 has
\* returned without a GET or a store call.
C6_Witness ==
    \E w \in WorkerIds :
        /\ outcome[w] = "robotsDenied"
        /\ task[w].URL = PageX
        /\ storeCalls[PageX] = 0

\* C7: a robots query that begins after a robots.txt fetch for the host
\* has failed returns true.
C7_AllowAllAfterFailure ==
    \A w \in WorkerIds : afterFail[w] => outcome[w] # "robotsDenied"

\* C8: at every send on the task queue the URL sent is already in the
\* visited set.
C8_VisitedBeforeEnqueue == [][IsSend => Sent.URL \in visited]_vars

\* C9: when Start has returned every worker has exited, so no crawlPage
\* call is in progress.
C9_NoWorkAfterStart ==
    StartReturned => \A w \in Workers : pc[w] = "exited"

\* C9 witness: Start has returned after two workers have crawled.
C9_Witness ==
    /\ StartReturned
    /\ Config.MaxConcurrency = 2
    /\ storeCalls[Root] > 0
    /\ storeCalls[PageB] > 0

\* C10: after cancellation no idle worker takes another task off the queue.
C10_NoDequeueAfterCancel ==
    [][cancelled => \A w \in WorkerIds :
                       ~(pc[w] = "select" /\ pc'[w] = "crawl")]_vars

----------------------------------------------------------------------------
(* Properties of the queue, the filters and the robots cache *)

\* the seed URLs, and how often a URL is listed
Seeds == {Config.SeedURLs[i] : i \in 1..Len(Config.SeedURLs)}

SeedOccurrences(u) ==
    Cardinality({i \in 1..Len(Config.SeedURLs) : Config.SeedURLs[i] = u})

\* worker w takes a step
Steps(w) == pc'[w] # pc[w] \/ idx'[w] # idx[w]

\* a worker has returned from extractAndQueueLinks for page u
LinksDone(u) ==
    \E w \in WorkerIds :
        /\ pc[w] = "sleep"
        /\ outcome[w] = "stored"
        /\ task[w].URL = u
        /\ task[w].Depth < Config.MaxDepth

\* C11: a link that was dropped on a full queue is queued when it is
\* discovered again: the callback that finds it goes on to markVisited and
\* the send instead of skipping it as visited.
C11_DroppedCanBeRequeued ==
    [][\A w \in WorkerIds :
          (pc[w] = "hasVisited" /\ CurLink(w) \in dropped
             /\ enqueues[CurLink(w)] = 0 /\ Steps(w))
            => pc'[w] = "markVisited"]_vars

\* C12: a worker at the link send can always take its step, whatever the
\* queue holds: it never waits for room.
C12_LinkSendNeverBlocks ==
    \A w \in WorkerIds :
        (pc[w] = "send" /\ ~crashed) => ENABLED WorkerSend(w)

\* C12 witness: links were dropped on a full queue and the worker that
\* dropped them has returned from crawlPage.
C12_Witness ==
    /\ dropped = {Root, PageC}
    /\ LinksDone(PageB)

\* C13: a page response with a status other than 2xx ends the crawlPage
\* call as a fetch error, the worker back in its loop.
C13_Non2xxIsFetchError ==
    \A w \in WorkerIds :
        response[w] = "non200" => (pc[w] = "sleep" /\ outcome[w] = "fetchError")

\* C14: whatever a worker step marks visited or sends has the hostname of
\* the page the worker is crawling.
C14_SameHostOnly ==
    [][\A w \in WorkerIds :
          Steps(w) =>
            /\ \A u \in visited' \ visited :
                  Hostname(u) = Hostname(task[w].URL)
            /\ IsSend => Hostname(Sent.URL) = Hostname(task[w].URL)]_vars

\* C14 witness: the links of http://a/, one of them to http://sub.a/, have
\* been handled and the subdomain link is neither visited nor queued.
C14_Witness ==
    /\ LinksDone(Root)
    /\ OffSite \notin visited
    /\ enqueues[OffSite] = 0
    /\ PageB \in visited

\* a URL on an excluded domain
OnExcludedDomain(u) ==
    \E d \in ExcludedDomains : HasSuffix(HostChars(Hostname(u)), d)

\* C15: a URL on an excluded domain is on the queue only as often as it is
\* a seed, and unless it is a seed it is never marked, queued or fetched.
C15_ExcludedNeverQueued ==
    \A u \in URLs :
        OnExcludedDomain(u) =>
            /\ enqueues[u] <= SeedOccurrences(u)
            /\ u \notin Seeds =>
                  /\ u \notin visited
                  /\ \A w \in WorkerIds : task[w].URL # u

\* C15 witness: the links of the seed http://b.com/ (excluded domain
\* b.com) have been handled and its link http://b.com/p is not visited.
C15_Witness ==
    /\ LinksDone(BRoot)
    /\ BPage \notin visited
    /\ enqueues[BPage] = 0

\* C16: a URL that an ad pattern matches, unless it is a seed, is never
\* marked visited, queued or fetched.
C16_AdLinksNeverQueued ==
    \A u \in URLs :
        ((\E pattern \in AdLinkPatterns : MatchString(pattern, u))
            /\ u \notin Seeds) =>
            /\ u \notin visited
            /\ enqueues[u] = 0
            /\ \A w \in WorkerIds : task[w].URL # u

\* C16 witness: the links of http://a/, the last of them the ad link, have
\* been handled and the ad link is not visited and not stored.
C16_Witness ==
    /\ LinksDone(Root)
    /\ PageAd \notin visited
    /\ storeCalls[PageAd] = 0
    /\ PageX \in visited

\* C17: the sink gets at most one store call per URL and content hash
\* (stated for the runs whose seeds are distinct).
C17_OneStorePerUrlAndHash ==
    DistinctSeeds =>
        \A u \in URLs :
            StoreCallsFor(u, GenerateContentHash(MainContent(u))) <= 1

\* C18: once a robots.txt fetch for a host has failed, the cache holds an
\* entry for the host.
C18_FailureIsCached ==
    \A h \in robotsFailed : robotsCache[h] # "none"

\* C19: no task leaves the queue before Start has sent and marked every
\* seed.
C19_SeedsBeforeConsuming ==
    [][Len(taskQueue') < Len(taskQueue)
          => startPc \in {"wait", "close", "done"}]_vars

\* C20: the queue never holds more than max_concurrency * 10 tasks.
C20_QueueBounded ==
    Len(taskQueue) <= Config.MaxConcurrency * QueueFactor

\* C20 witness: the queue is full, with more seeds to come.
C20_Witness ==
    /\ Len(taskQueue) = Config.MaxConcurrency * QueueFactor
    /\ startPc = "seedSend"
    /\ Len(Config.SeedURLs) > Config.MaxConcurrency * QueueFactor

----------------------------------------------------------------------------
(* Properties of the stored documents *)

\* C21: two documents passed to the sink with equal main content carry
\* equal hash ids, and every page that was stored is in the sink under its
\* own URL.
C21_HashOfContentOnly ==
    /\ \A d1, d2 \in sink :
          d1.MainContent = d2.MainContent => d1.HashID = d2.HashID
    /\ \A u \in URLs : storeCalls[u] > 0 => \E d \in sink : d.URL = u

\* C21 witness: two seeds with the same non-empty content have both been
\* stored, under distinct URLs and with one hash id.
C21_Witness ==
    \E d1, d2 \in sink :
        /\ d1.URL = PageB
        /\ d2.URL = PageX
        /\ {PageB, PageX} \subseteq Seeds
        /\ d1.MainContent = d2.MainContent
        /\ d1.MainContent # <<>>
        /\ d1.HashID = d2.HashID

----------------------------------------------------------------------------
(* Properties of failures, the robots cache, the visited set and shutdown *)

\* the ways a crawlPage call ends without a store call
Failures == {"parseError", "robotsDenied", "fetchError"}

\* C22: a task that fails (no document from the GET, robots denial,
\* unparseable URL) leaves its worker back in its loop and the process
\* running.
C22_FailureEndsOnlyItsTask ==
    \A w \in WorkerIds :
        (outcome[w] \in Failures \/ response[w] \in {"non200", "failed"})
            => (pc[w] = "sleep" /\ ~crashed)

\* the host of the page worker w is crawling
TaskHost(w) == Hostname(task[w].URL)

\* C23: while no robots.txt fetch for a host has failed, a worker that has
\* fetched the host's robots.txt finds no entry for the host in the cache
\* and no other worker holding a fetched copy: the request was the only one.
C23_OneRobotsFetchPerHost ==
    \A w \in WorkerIds :
        (pc[w] = "robotsStore" /\ TaskHost(w) \notin robotsFailed) =>
            /\ robotsCache[TaskHost(w)] = "none"
            /\ \A v \in WorkerIds \ {w} :
                  pc[v] = "robotsStore" => TaskHost(v) # TaskHost(w)

\* C24: a worker comes to the page GET only from the robots query of its
\* crawlPage call, holding the robots data of the page's host: the cache
\* entry, the data just fetched and stored, or allow-all after a failed
\* fetch.
C24_RobotsBeforeGet ==
    [][\A w \in WorkerIds :
          (pc'[w] = "get" /\ pc[w] # "get") =>
            /\ pc[w] \in {"crawl", "robotsFetch", "robotsStore"}
            /\ ua'[w] \in UserAgents
            /\ pc[w] = "crawl" =>
                  /\ robotsCache[TaskHost(w)] # "none"
                  /\ rdata'[w] = robotsCache[TaskHost(w)]
            /\ pc[w] = "robotsFetch" =>
                  /\ rdata'[w] = "allowall"
                  /\ TaskHost(w) \in robotsFailed'
            /\ pc[w] = "robotsStore" =>
                  /\ rdata'[w] = "parsed"
                  /\ robotsCache'[TaskHost(w)] = "parsed"]_vars

\* C24 witness: a second page of host a is at its GET with the robots data
\* of the host.
C24_Witness ==
    \E w \in WorkerIds :
        /\ pc[w] = "get"
        /\ task[w].URL = PageB
        /\ rdata[w] = "parsed"
        /\ storeCalls[Root] = 1

\* C25: no step takes a URL out of the visited set.
C25_VisitedOnlyGrows == [][visited \subseteq visited']_vars

\* C25 witness: a link that was marked and then dropped is found again and
\* hasVisited is about to return true for it.
C25_Witness ==
    \E w \in WorkerIds :
        /\ pc[w] = "hasVisited"
        /\ CurLink(w) \in dropped
        /\ hasVisited(CurLink(w))

\* C27: once the queue is closed Start has returned, every worker has
\* exited and every seed was sent; no step sends on a closed queue and none
\* reopens it.
C27_NoSendAfterClose ==
    /\ [](closed =>
            /\ StartReturned
            /\ \A w \in Workers : pc[w] = "exited"
            /\ \A u \in URLs : enqueues[u] >= SeedOccurrences(u))
    /\ [][/\ IsSend => ~closed
          /\ closed => closed'
          /\ closed' # closed => startPc = "close"]_vars

\* C27 witness: the queue is closed after a crawl that queued a link.
C27_Witness ==
    /\ closed
    /\ enqueues[PageB] = 1
    /\ PageB \notin Seeds

\* C28: with max_depth >= 0 every task sent has a depth in 0..max_depth,
\* and every task that leaves the queue is crawled (none is skipped as
\* over depth).
C28_DepthsWithinMaxDepth ==
    [][Config.MaxDepth >= 0 =>
          /\ IsSend => Sent.Depth \in 0..Config.MaxDepth
          /\ Len(taskQueue') < Len(taskQueue) =>
                \E w \in WorkerIds :
                    /\ pc[w] = "select"
                    /\ pc'[w] = "crawl"
                    /\ task'[w] = Head(taskQueue)]_vars

\* C28 witness: a link at depth max_depth is on the queue.
C28_Witness ==
    /\ Config.MaxDepth >= 1
    /\ \E i \in 1..Len(taskQueue) :
          /\ taskQueue[i].Depth = Config.MaxDepth
          /\ taskQueue[i].URL \notin Seeds

\* the hosts of the seeds
SeedHosts == {Hostname(u) : u \in Seeds}

\* C29: every URL queued, held by a worker or stored is on the host of a
\* seed.
C29_StaysOnSeedHosts ==
    \A u \in URLs :
        (enqueues[u] > 0 \/ storeCalls[u] > 0
            \/ \E w \in WorkerIds : task[w].URL = u)
            => Hostname(u) \in SeedHosts

\* C29 witness: a page that is not a seed has been stored, and the page
\* that links to another host has had its links handled.
C29_Witness ==
    /\ storeCalls[PageX] > 0
    /\ Seeds = {Root}
    /\ enqueues[OffSite] = 0

\* C30: whenever the queue has room Start can send the seed it is at,
\* whatever the visited set holds; its send puts that seed on the queue at
\* depth 0; and when the seed loop is over every seed was sent once per
\* occurrence.
C30_SeedsSentUnconditionally ==
    /\ []((startPc = "seedSend" /\ ~crashed
             /\ Len(taskQueue) < Config.MaxConcurrency * QueueFactor)
            => ENABLED (StartSeedSend /\ IsSend))
    /\ []((startPc \in {"wait", "close", "done"})
            => \A u \in URLs : enqueues[u] >= SeedOccurrences(u))
    /\ [][(startPc = "seedSend" /\ startPc' # "seedSend") =>
            /\ IsSend
            /\ Sent = [URL |-> Config.SeedURLs[startI], Depth |-> 0]]_vars

\* C30 witness: a seed listed twice was sent twice, the second time when it
\* was already in the visited set.
C30_Witness ==
    /\ startPc = "wait"
    /\ Config.SeedURLs = <<Root, Root>>
    /\ enqueues[Root] = 2
    /\ enqueues[PageB] = 0

====
